---- MODULE Spec2Model ----
(***************************************************************************)
(* The peer-connection negotiation and recovery logic of the VideoChat     *)
(* component (src/src/Home/VideoChat.tsx), as one state machine.           *)
(*                                                                         *)
(* One client is modelled.  The relay, the partner and the browser's       *)
(* RTCPeerConnection are the environment: they deliver signaling events,   *)
(* peer-connection callbacks and the outcomes of the awaited platform      *)
(* calls.  Every handler runs to its next await in one step; the awaited   *)
(* call's continuation is a task that resumes in a later step.             *)
(*                                                                         *)
(* React closures: createPeerConnection, initializeSocket and findPartner  *)
(* are useCallback values.  A socket's handlers keep the closure of the    *)
(* render in which initializeSocket created the socket, and a handle's     *)
(* callbacks keep the closure of the createPeerConnection that built it.   *)
(* A closure is recorded as what it reads of the captured render (Env).    *)
(*                                                                         *)
(* The relay addresses a client by its socket id and answers find-match,   *)
(* which the component only emits on socketRef.current: session events     *)
(* (match, waiting, offer, answer, partner-left) arrive on that socket.    *)
(* A replaced socket stays alive, connects and reconnects, but is sent no  *)
(* session events.                                                         *)
(***************************************************************************)
EXTENDS Integers, FiniteSets, Bags, TLC

MAX_RECONNECT_ATTEMPTS == 3

\* Bounds of the model.
MaxSockets == 2
MaxTasks == 1
MaxAttempts == 4
MaxHandles == 2

Sockets == 1..MaxSockets
\* The slots for RTCPeerConnection objects that are open.  Closed objects are
\* all alike: a suspended handler whose handle was closed holds handle 0.
Handles == 1..MaxHandles

VARIABLES
    connectionState,    \* useState<ConnectionState>
    localStream,        \* streams.localStream # null
    remoteStream,       \* streams.remoteStream # null
    mediaPending,       \* getUserMedia of initializeMedia not yet settled
    localTracks,        \* the tracks of the local stream
    controls,           \* useState controls
    sockets,            \* the sockets created by initializeSocket
    socketRef,          \* socketRef.current
    socketEnv,          \* the closure of the handlers of socketRef.current
    pcs,                \* the RTCPeerConnection objects
    peerConnectionRef,  \* peerConnectionRef.current (0 = null)
    isNegotiatingRef,   \* isNegotiatingRef.current
    makingOfferRef,     \* makingOfferRef.current
    reconnectTimeout,   \* the timer armed through reconnectTimeoutRef
    tasks,              \* handlers suspended at an await
    last                \* the handler that ran last, what it emitted or applied

vars == <<connectionState, localStream, remoteStream, mediaPending, localTracks,
          controls, sockets, socketRef, socketEnv, pcs, peerConnectionRef,
          isNegotiatingRef, makingOfferRef, reconnectTimeout, tasks, last>>

\* The test of case "failed" of pc.oniceconnectionstatechange.
retryAllowed(att) == att < MAX_RECONNECT_ATTEMPTS

\* What a closure reads of the render it captured: streams.localStream # null,
\* connectionState.isInitiator, and connectionState.reconnectAttempts, which
\* it only compares with the ceiling (retry).
Closure(ls, init, att) == [ls |-> ls, init |-> init, retry |-> retryAllowed(att)]

\* The first render: the initial state.
FirstRenderEnv == Closure(FALSE, FALSE, 0)

\* The closure of the current render.
RenderEnv ==
    Closure(localStream, connectionState.isInitiator,
            connectionState.reconnectAttempts)

InitialConnectionState ==
    [isConnected |-> FALSE, isWaiting |-> FALSE, error |-> "null",
     status |-> "Initializing...", isInitiator |-> FALSE, reconnectAttempts |-> 0]

\* A closed RTCPeerConnection: signalingState and iceConnectionState read "closed".
ClosedPc ==
    [st |-> "closed", env |-> FirstRenderEnv, sig |-> "closed", remote |-> FALSE,
     ice |-> "closed"]

\* new RTCPeerConnection(...) followed by the registrations of createPeerConnection.
NewPc(env) ==
    [st |-> "open", env |-> env, sig |-> "stable", remote |-> FALSE, ice |-> "new"]

NoTimer == [pending |-> FALSE, env |-> FirstRenderEnv]

Task(kind, h, stage) == [kind |-> kind, h |-> h, stage |-> stage]

\* An invocation of pc.onnegotiationneeded whose awaited setLocalDescription
\* never settles because its handle was closed: it stays suspended for ever.
\* All such invocations are alike and are kept as one.
HungNegotiation == Task("neg", 0, "hung")

\* The number of suspended handlers that can still resume.
InFlight(B) == BagCardinality(B) - (IF BagIn(HungNegotiation, B) THEN 1 ELSE 0)

\* The object a suspended handler holds in its local variable pc.
PcOf(h) == IF h = 0 THEN ClosedPc ELSE pcs[h]

\* The tasks B once the handles closed in newPcs are closed.
Detach(B, newPcs) ==
    LET moved(t) == IF t.h # 0 /\ newPcs[t.h].st = "closed"
                    THEN [t EXCEPT !.h = 0] ELSE t
    IN  BagOfAll(moved, B)

\* The peer-connection part of the state that cleanupPeerConnection works on.
CurP == [pcs |-> pcs, ref |-> peerConnectionRef, remote |-> remoteStream]

\* The peer-connection part after a handler, and the tasks B it leaves.
SetP(Q, B) ==
    /\ pcs' = Q.pcs
    /\ peerConnectionRef' = Q.ref
    /\ remoteStream' = Q.remote
    /\ tasks' = Detach(B, Q.pcs)

Ran(ev, out) ==
    last' = [ev |-> ev, out |-> out, hadPc |-> peerConnectionRef # 0]

Connected(s) == sockets[s] = "connected"

----------------------------------------------------------------------------
\* cleanupPeerConnection without setStreams: the remote stream is kept.
cleanupPeerConnection_KeepsRemote(P) ==
    [pcs |-> IF P.ref # 0 THEN [P.pcs EXCEPT ![P.ref] = ClosedPc] ELSE P.pcs,
     ref |-> 0, remote |-> P.remote]

\* cleanupPeerConnection without close(): the old handle stays open.
cleanupPeerConnection_NoClose(P) ==
    [pcs |-> P.pcs, ref |-> 0, remote |-> FALSE]

cleanupPeerConnection(P) ==
    [pcs |-> IF P.ref # 0 THEN [P.pcs EXCEPT ![P.ref] = ClosedPc] ELSE P.pcs,
     ref |-> 0, remote |-> FALSE]

\* handleDisconnect that leaves the role as it was.
handleDisconnectState_KeepsRole(c) ==
    [c EXCEPT !.isConnected = FALSE, !.isWaiting = FALSE,
              !.status = "Disconnected"]

\* The setConnectionState of handleDisconnect.
handleDisconnectState(c) ==
    [c EXCEPT !.isConnected = FALSE, !.isWaiting = FALSE,
              !.status = "Disconnected", !.isInitiator = FALSE]

\* The updaters passed to setConnectionState, each named after its handler.
connectState(c) ==
    [c EXCEPT !.error = "null", !.status = "Connected to server"]

matchState(c) ==
    [c EXCEPT !.isInitiator = TRUE, !.isWaiting = FALSE,
              !.status = "Partner found! Establishing connection..."]

partnerLeftState(c) ==
    [handleDisconnectState(c) EXCEPT
         !.status = "Partner left. You can find a new partner."]

waitingState(c) ==
    [c EXCEPT !.isWaiting = TRUE, !.status = "Waiting for a partner..."]

negotiationErrorState(c) ==
    [c EXCEPT !.error = "Connection negotiation failed"]

trackState(c) ==
    [c EXCEPT !.isConnected = TRUE, !.status = "Connected to partner",
              !.error = "null"]

iceFailedRetryState(c) ==
    [c EXCEPT !.reconnectAttempts = c.reconnectAttempts + 1,
              !.status = "Connection failed. Attempting to reconnect..."]

iceFailedFinalState(c) ==
    [handleDisconnectState(c) EXCEPT
         !.error = "Connection failed after multiple attempts"]

iceDisconnectedState(c) ==
    [c EXCEPT !.status = "Connection interrupted. Attempting to restore..."]

\* case "connected" without the reset of reconnectAttempts.
iceConnectedState_NoReset(c) ==
    [c EXCEPT !.error = "null", !.status = "Connected to partner"]

iceConnectedState(c) ==
    [c EXCEPT !.reconnectAttempts = 0, !.error = "null",
              !.status = "Connected to partner"]

findPartnerState(c) ==
    [c EXCEPT !.isConnected = FALSE, !.isWaiting = TRUE,
              !.status = "Looking for a partner..."]

\* A slot for the object that new RTCPeerConnection returns.
FreeHandles(P) == {h \in Handles : P.pcs[h].st = "closed"}

NewHandle(P) == CHOOSE h \in FreeHandles(P) : \A g \in FreeHandles(P) : h <= g

createPeerConnection(P, env) ==
    LET Q == cleanupPeerConnection(P)
        n == NewHandle(Q)
    IN  [pcs |-> [Q.pcs EXCEPT ![n] = NewPc(env)], ref |-> n, remote |-> Q.remote]

CanCreate(P) == FreeHandles(cleanupPeerConnection(P)) # {}

----------------------------------------------------------------------------
Init ==
    /\ connectionState = InitialConnectionState
    /\ localStream = FALSE
    /\ remoteStream = FALSE
    /\ mediaPending = TRUE
    /\ localTracks = [audio |-> TRUE, video |-> TRUE, live |-> TRUE]
    /\ controls = [isMuted |-> FALSE, isVideoOff |-> FALSE]
    /\ sockets = [s \in Sockets |-> IF s = 1 THEN "connecting" ELSE "none"]
    /\ socketRef = 1
    /\ socketEnv = FirstRenderEnv
    /\ pcs = [h \in Handles |-> ClosedPc]
    /\ peerConnectionRef = 0
    /\ isNegotiatingRef = FALSE
    /\ makingOfferRef = FALSE
    /\ reconnectTimeout = NoTimer
    /\ tasks = EmptyBag
    /\ last = [ev |-> "mount", out |-> {}, hadPc |-> FALSE]

----------------------------------------------------------------------------
MediaVars == <<localStream, mediaPending, localTracks, controls>>
SockVars == <<sockets, socketRef, socketEnv>>
PcVars == <<pcs, peerConnectionRef, remoteStream>>
FlagVars == <<isNegotiatingRef, makingOfferRef>>

\* initializeMedia: getUserMedia resolves and the stream is stored.
InitializeMediaDone ==
    /\ mediaPending
    /\ mediaPending' = FALSE
    /\ localStream' = TRUE
    /\ Ran("media", {})
    /\ UNCHANGED <<connectionState, localTracks, controls, SockVars, PcVars,
                   FlagVars, reconnectTimeout, tasks>>

\* The transport of socket s connects (first connection or automatic
\* reconnection): socket.on("connect").
SocketConnect(s) ==
    /\ sockets[s] = "connecting"
    /\ sockets' = [sockets EXCEPT ![s] = "connected"]
    /\ connectionState' = connectState(connectionState)
    /\ Ran("connect", {})
    /\ UNCHANGED <<MediaVars, socketRef, socketEnv, PcVars, FlagVars,
                   reconnectTimeout, tasks>>

\* The transport of socket s is lost and socket.io starts reconnecting; the
\* component registers no handler for it.
SocketDrop(s) ==
    /\ Connected(s)
    /\ sockets' = [sockets EXCEPT ![s] = "connecting"]
    /\ Ran("drop", {})
    /\ UNCHANGED <<connectionState, MediaVars, socketRef, socketEnv, PcVars,
                   FlagVars, reconnectTimeout, tasks>>

\* socket.on("match"): the handlers of a socket call the createPeerConnection
\* of the render that created the socket.
OnMatch ==
    /\ Connected(socketRef)
    /\ CanCreate(CurP)
    /\ connectionState' = matchState(connectionState)
    /\ SetP(createPeerConnection(CurP, socketEnv), tasks)
    /\ Ran("match", {})
    /\ UNCHANGED <<MediaVars, SockVars, FlagVars, reconnectTimeout>>

\* The collision test of socket.on("offer"), with the isInitiator its closure holds.
offerCollision(makingOffer, sig, init) ==
    makingOffer \/ (sig # "stable" /\ ~init)

\* socket.on("offer") up to its first await.
OnOffer ==
    /\ Connected(socketRef)
    /\ peerConnectionRef = 0 => CanCreate(CurP)
    /\ LET Q == IF peerConnectionRef # 0 THEN CurP
                ELSE createPeerConnection(CurP, socketEnv)
           h == Q.ref
       IN  IF offerCollision(makingOfferRef, Q.pcs[h].sig, socketEnv.init)
           THEN /\ SetP(Q, tasks)
                /\ Ran("offer-ignored", {})
           ELSE /\ InFlight(tasks) < MaxTasks
                /\ SetP(Q, tasks (+) SetToBag({Task("offer", h, "setRemote")}))
                /\ Ran("offer", {})
    /\ UNCHANGED <<connectionState, MediaVars, SockVars, FlagVars, reconnectTimeout>>

\* An answer handler that, like the offer handler, creates a handle when none exists.
OnAnswer_CreatesHandle ==
    /\ Connected(socketRef)
    /\ InFlight(tasks) < MaxTasks
    /\ LET Q == IF peerConnectionRef # 0 THEN CurP
                ELSE createPeerConnection(CurP, socketEnv)
       IN  SetP(Q, tasks (+) SetToBag({Task("answer", Q.ref, "setRemote")}))
    /\ Ran("answer", {})
    /\ UNCHANGED <<connectionState, MediaVars, SockVars, FlagVars, reconnectTimeout>>

\* socket.on("answer") up to its await.
OnAnswer ==
    /\ Connected(socketRef)
    /\ IF peerConnectionRef = 0
       THEN /\ tasks' = tasks
            /\ Ran("answer-dropped", {})
       ELSE /\ InFlight(tasks) < MaxTasks
            /\ tasks' = tasks (+)
                 SetToBag({Task("answer", peerConnectionRef, "setRemote")})
            /\ Ran("answer", {})
    /\ UNCHANGED <<connectionState, MediaVars, SockVars, PcVars, FlagVars,
                   reconnectTimeout>>

\* The test of socket.on("ice-candidate") that drops every candidate.
candidateApplies_Never(hasPc, remoteDescription) == FALSE

\* The test of socket.on("ice-candidate"): !pc || !pc.remoteDescription returns.
candidateApplies(hasPc, remoteDescription) == hasPc /\ remoteDescription

\* socket.on("ice-candidate"): the candidate is handed to addIceCandidate or
\* dropped; nothing follows the await, and the catch block only logs.
OnIceCandidate ==
    /\ Connected(socketRef)
    /\ Ran("ice-candidate",
           IF candidateApplies(peerConnectionRef # 0, PcOf(peerConnectionRef).remote)
           THEN {"addIceCandidate"} ELSE {})
    /\ UNCHANGED <<connectionState, MediaVars, SockVars, PcVars, FlagVars,
                   reconnectTimeout, tasks>>

\* socket.on("partner-left").
OnPartnerLeft ==
    /\ Connected(socketRef)
    /\ SetP(cleanupPeerConnection(CurP), tasks)
    /\ connectionState' = partnerLeftState(connectionState)
    /\ Ran("partner-left", {})
    /\ UNCHANGED <<MediaVars, SockVars, FlagVars, reconnectTimeout>>

\* socket.on("waiting").
OnWaiting ==
    /\ Connected(socketRef)
    /\ connectionState' = waitingState(connectionState)
    /\ Ran("waiting", {})
    /\ UNCHANGED <<MediaVars, SockVars, PcVars, FlagVars, reconnectTimeout, tasks>>

----------------------------------------------------------------------------
\* The RTCPeerConnection: what the awaited calls do to an open handle.

\* pc.setLocalDescription() with no argument: an offer from "stable" or
\* "have-local-offer", an answer from "have-remote-offer".
ImplicitLocalDescription(sig) ==
    IF sig = "have-remote-offer" THEN "stable" ELSE "have-local-offer"

\* pc.setRemoteDescription(offer): from "have-local-offer" the local offer is
\* rolled back first (or the call is rejected, see the error step).
CanSetRemoteOffer(pc) == pc.st = "open"

\* pc.createAnswer() and pc.setLocalDescription(answer).
CanAnswer(pc) == pc.st = "open" /\ pc.sig = "have-remote-offer"

\* pc.setRemoteDescription(answer).
CanSetRemoteAnswer(pc) == pc.st = "open" /\ pc.sig = "have-local-offer"

Take(t) == tasks (-) SetToBag({t})

\* A finally block that releases makingOffer only.
negotiationFinally_KeepsNegotiating ==
    [isNegotiating |-> isNegotiatingRef, makingOffer |-> FALSE]

\* The finally block of pc.onnegotiationneeded: the values it leaves in
\* isNegotiatingRef.current and makingOfferRef.current.
negotiationFinally ==
    [isNegotiating |-> FALSE, makingOffer |-> FALSE]

\* The early-return test of pc.onnegotiationneeded, with the isInitiator of
\* the closure that built the handle.
negotiationSkipped(isNegotiating, init) == isNegotiating \/ ~init

\* pc.onnegotiationneeded up to its await.  The browser fires the event on a
\* handle with local tracks while its signaling state is stable.
OnNegotiationNeeded(h) ==
    /\ pcs[h].st = "open"
    /\ pcs[h].env.ls
    /\ pcs[h].sig = "stable"
    /\ IF negotiationSkipped(isNegotiatingRef, pcs[h].env.init)
       THEN \* return inside try: the finally block runs
            /\ isNegotiatingRef' = negotiationFinally.isNegotiating
            /\ makingOfferRef' = negotiationFinally.makingOffer
            /\ tasks' = tasks
            /\ Ran("negotiationneeded-return", {})
       ELSE /\ InFlight(tasks) < MaxTasks
            /\ isNegotiatingRef' = TRUE
            /\ makingOfferRef' = TRUE
            /\ tasks' = tasks (+) SetToBag({Task("neg", h, "setLocal")})
            /\ Ran("negotiationneeded", {})
    /\ UNCHANGED <<connectionState, MediaVars, SockVars, PcVars, reconnectTimeout>>

\* pc.onnegotiationneeded after await pc.setLocalDescription().
NegotiationResume(t) ==
    /\ t.kind = "neg"
    /\ t.stage = "setLocal"
    /\ BagIn(t, tasks)
    /\ \/ \* resolved: emit the offer, then finally
          /\ PcOf(t.h).st = "open"
          /\ tasks' = Take(t)
          /\ pcs' = [pcs EXCEPT ![t.h].sig = ImplicitLocalDescription(pcs[t.h].sig)]
          /\ isNegotiatingRef' = negotiationFinally.isNegotiating
          /\ makingOfferRef' = negotiationFinally.makingOffer
          /\ Ran("offer-sent", {"offer"})
          /\ UNCHANGED connectionState
       \/ \* rejected: catch, then finally
          /\ tasks' = Take(t)
          /\ connectionState' = negotiationErrorState(connectionState)
          /\ isNegotiatingRef' = negotiationFinally.isNegotiating
          /\ makingOfferRef' = negotiationFinally.makingOffer
          /\ Ran("negotiation-error", {})
          /\ UNCHANGED pcs
       \/ \* the handle was closed meanwhile and the promise never settles
          /\ PcOf(t.h).st = "closed"
          /\ tasks' = (Take(t) (-) SetToBag({HungNegotiation}))
                          (+) SetToBag({HungNegotiation})
          /\ Ran("negotiation-abandoned", {})
          /\ UNCHANGED <<connectionState, pcs, FlagVars>>
    /\ UNCHANGED <<MediaVars, SockVars, peerConnectionRef, remoteStream,
                   reconnectTimeout>>

\* The catch blocks of socket.on("offer") and socket.on("answer").
HandlerFailed(t, ev) ==
    /\ SetP(cleanupPeerConnection(CurP), Take(t))
    /\ connectionState' = handleDisconnectState(connectionState)
    /\ Ran(ev, {})

\* socket.on("offer") after each of its awaits.
OfferResume(t) ==
    /\ t.kind = "offer"
    /\ BagIn(t, tasks)
    /\ \/ /\ t.stage = "setRemote"
          /\ CanSetRemoteOffer(PcOf(t.h))
          /\ pcs' = [pcs EXCEPT ![t.h].sig = "have-remote-offer",
                                ![t.h].remote = TRUE]
          /\ tasks' = Take(t) (+) SetToBag({[t EXCEPT !.stage = "createAnswer"]})
          /\ Ran("offer-applied", {})
          /\ UNCHANGED <<connectionState, peerConnectionRef, remoteStream>>
       \/ /\ t.stage = "createAnswer"
          /\ CanAnswer(PcOf(t.h))
          /\ tasks' = Take(t) (+) SetToBag({[t EXCEPT !.stage = "setLocal"]})
          /\ Ran("answer-created", {})
          /\ UNCHANGED <<connectionState, PcVars>>
       \/ /\ t.stage = "setLocal"
          /\ CanAnswer(PcOf(t.h))
          /\ pcs' = [pcs EXCEPT ![t.h].sig = "stable"]
          /\ tasks' = Take(t)
          /\ Ran("answer-sent", {"answer"})
          /\ UNCHANGED <<connectionState, peerConnectionRef, remoteStream>>
       \/ HandlerFailed(t, "offer-error")
       \/ /\ PcOf(t.h).st = "closed"
          /\ tasks' = Take(t)
          /\ Ran("offer-abandoned", {})
          /\ UNCHANGED <<connectionState, PcVars>>
    /\ UNCHANGED <<MediaVars, SockVars, FlagVars, reconnectTimeout>>

\* socket.on("answer") after await pc.setRemoteDescription(remoteDesc).
AnswerResume(t) ==
    /\ t.kind = "answer"
    /\ BagIn(t, tasks)
    /\ \/ /\ CanSetRemoteAnswer(PcOf(t.h))
          /\ pcs' = [pcs EXCEPT ![t.h].sig = "stable", ![t.h].remote = TRUE]
          /\ tasks' = Take(t)
          /\ Ran("answer-applied", {})
          /\ UNCHANGED <<connectionState, peerConnectionRef, remoteStream>>
       \/ HandlerFailed(t, "answer-error")
       \/ /\ PcOf(t.h).st = "closed"
          /\ tasks' = Take(t)
          /\ Ran("answer-abandoned", {})
          /\ UNCHANGED <<connectionState, PcVars>>
    /\ UNCHANGED <<MediaVars, SockVars, FlagVars, reconnectTimeout>>

\* pc.ontrack with event.streams[0] present: the browser fires it when a remote
\* description carrying tracks has been applied.
OnTrack(h) ==
    /\ pcs[h].st = "open"
    /\ pcs[h].remote
    /\ remoteStream' = TRUE
    /\ connectionState' = trackState(connectionState)
    /\ Ran("track", {})
    /\ UNCHANGED <<MediaVars, SockVars, pcs, peerConnectionRef, FlagVars,
                   reconnectTimeout, tasks>>

----------------------------------------------------------------------------
\* The moves of iceConnectionState the handler reacts to ("checking" and
\* "completed" fall through the switch).  No ICE restart is ever requested, so
\* "failed" is final for a handle.
IceMoves ==
    {<<"new", "connected">>, <<"new", "failed">>, <<"connected", "disconnected">>,
     <<"disconnected", "connected">>, <<"disconnected", "failed">>}

\* pc.oniceconnectionstatechange.
OnIceConnectionStateChange(h, st) ==
    /\ pcs[h].st = "open"
    /\ pcs[h].remote
    /\ <<pcs[h].ice, st>> \in IceMoves
    /\ \/ /\ st = "failed"
          /\ pcs[h].env.retry
          /\ connectionState.reconnectAttempts < MaxAttempts
          /\ connectionState' = iceFailedRetryState(connectionState)
          \* clearTimeout of the previous timer, then setTimeout(() => findPartner())
          /\ reconnectTimeout' = [pending |-> TRUE, env |-> pcs[h].env]
          /\ pcs' = [pcs EXCEPT ![h].ice = st]
          /\ Ran("ice-failed-retry", {})
          /\ UNCHANGED <<peerConnectionRef, remoteStream, tasks>>
       \/ /\ st = "failed"
          /\ ~pcs[h].env.retry
          /\ SetP(cleanupPeerConnection(
                    [CurP EXCEPT !.pcs = [pcs EXCEPT ![h].ice = st]]), tasks)
          /\ connectionState' = iceFailedFinalState(connectionState)
          /\ Ran("ice-failed-final", {})
          /\ UNCHANGED reconnectTimeout
       \/ /\ st = "disconnected"
          /\ connectionState' = iceDisconnectedState(connectionState)
          /\ pcs' = [pcs EXCEPT ![h].ice = st]
          /\ Ran("ice-disconnected", {})
          /\ UNCHANGED <<peerConnectionRef, remoteStream, reconnectTimeout, tasks>>
       \/ /\ st = "connected"
          /\ connectionState' = iceConnectedState(connectionState)
          /\ pcs' = [pcs EXCEPT ![h].ice = st]
          /\ Ran("ice-connected", {})
          /\ UNCHANGED <<peerConnectionRef, remoteStream, reconnectTimeout, tasks>>
    /\ UNCHANGED <<MediaVars, SockVars, FlagVars>>

\* initializeSocket of the render whose closure is env.
initializeSocket(env) ==
    IF Connected(socketRef)
    THEN UNCHANGED SockVars
    ELSE \E n \in Sockets :
              /\ sockets[n] = "none"
              /\ \A m \in Sockets : sockets[m] = "none" => n <= m
              /\ sockets' = [sockets EXCEPT ![n] = "connecting"]
              /\ socketRef' = n
              /\ socketEnv' = env

\* findPartner of the render whose closure is env.
findPartner(env, ev) ==
    IF ~Connected(socketRef)
    THEN /\ initializeSocket(env)
         /\ Ran(ev, {})
         /\ UNCHANGED <<connectionState, PcVars, tasks>>
    ELSE /\ SetP(cleanupPeerConnection(CurP), tasks)
         /\ connectionState' = findPartnerState(connectionState)
         /\ Ran(ev, {"find-match"})
         /\ UNCHANGED SockVars

\* The find-partner button: disabled={connectionState.isWaiting}.
UserFindPartner ==
    /\ ~connectionState.isWaiting
    /\ findPartner(RenderEnv, "findPartner")
    /\ UNCHANGED <<MediaVars, FlagVars, reconnectTimeout>>

\* The setTimeout callback armed by case "failed" runs after RECONNECT_DELAY.
ReconnectTimerFires ==
    /\ reconnectTimeout.pending
    /\ reconnectTimeout' = NoTimer
    /\ findPartner(reconnectTimeout.env, "timer-findPartner")
    /\ UNCHANGED <<MediaVars, FlagVars>>

\* toggleAudio that mutes instead of flipping.
toggleAudio_Mute(hasStream, tr, c) ==
    IF hasStream
    THEN [tracks |-> [tr EXCEPT !.audio = FALSE],
          controls |-> [c EXCEPT !.isMuted = TRUE]]
    ELSE [tracks |-> tr, controls |-> c]

\* toggleAudio on the tracks tr and the controls c.
toggleAudio(hasStream, tr, c) ==
    IF hasStream
    THEN [tracks |-> [tr EXCEPT !.audio = ~tr.audio],
          controls |-> [c EXCEPT !.isMuted = ~c.isMuted]]
    ELSE [tracks |-> tr, controls |-> c]

\* toggleVideo on the tracks tr and the controls c.
toggleVideo(hasStream, tr, c) ==
    IF hasStream
    THEN [tracks |-> [tr EXCEPT !.video = ~tr.video],
          controls |-> [c EXCEPT !.isVideoOff = ~c.isVideoOff]]
    ELSE [tracks |-> tr, controls |-> c]

\* The mute button.
ToggleAudio ==
    /\ LET r == toggleAudio(localStream, localTracks, controls)
       IN  localTracks' = r.tracks /\ controls' = r.controls
    /\ Ran("toggleAudio", {})
    /\ UNCHANGED <<connectionState, localStream, mediaPending, SockVars, PcVars,
                   FlagVars, reconnectTimeout, tasks>>

\* The camera button.
ToggleVideo ==
    /\ LET r == toggleVideo(localStream, localTracks, controls)
       IN  localTracks' = r.tracks /\ controls' = r.controls
    /\ Ran("toggleVideo", {})
    /\ UNCHANGED <<connectionState, localStream, mediaPending, SockVars, PcVars,
                   FlagVars, reconnectTimeout, tasks>>

----------------------------------------------------------------------------
Tasks == BagToSet(tasks)

Next ==
    \/ InitializeMediaDone
    \/ \E s \in Sockets : SocketConnect(s)
    \/ \E s \in Sockets : SocketDrop(s)
    \/ OnMatch
    \/ OnOffer
    \/ OnAnswer
    \/ OnIceCandidate
    \/ OnPartnerLeft
    \/ OnWaiting
    \/ \E h \in Handles : OnNegotiationNeeded(h)
    \/ \E t \in Tasks : NegotiationResume(t)
    \/ \E t \in Tasks : OfferResume(t)
    \/ \E t \in Tasks : AnswerResume(t)
    \/ \E h \in Handles : OnTrack(h)
    \/ \E h \in Handles : \E st \in {"connected", "disconnected", "failed"} :
          OnIceConnectionStateChange(h, st)
    \/ UserFindPartner
    \/ ReconnectTimerFires

Spec == Init /\ [][Next]_vars

\* The component with its media controls, during matching and negotiation
\* (ICE recovery and the reconnect timer left aside).  toggleAudio and
\* toggleVideo read and write only the local tracks' enabled flags and the
\* controls, which no other handler reads.
NextControls ==
    \/ ToggleAudio
    \/ ToggleVideo
    \/ InitializeMediaDone
    \/ \E s \in Sockets : SocketConnect(s)
    \/ \E s \in Sockets : SocketDrop(s)
    \/ OnMatch
    \/ OnOffer
    \/ OnPartnerLeft
    \/ \E h \in Handles : OnNegotiationNeeded(h)
    \/ \E t \in Tasks : NegotiationResume(t)
    \/ \E t \in Tasks : OfferResume(t)
    \/ \E h \in Handles : OnTrack(h)
    \/ UserFindPartner

SpecControls == Init /\ [][NextControls]_vars

----------------------------------------------------------------------------
\* Claims.

IceFailed == \E h \in Handles : OnIceConnectionStateChange(h, "failed")

IceConnected == \E h \in Handles : OnIceConnectionStateChange(h, "connected")

NegotiationTrigger == \E h \in Handles : OnNegotiationNeeded(h)

OpenHandles == {h \in Handles : pcs[h].st = "open"}

\* C1: isConnected and isWaiting are never both true, in every reachable
\* state, whatever signaling events, peer-connection callbacks and findPartner
\* requests have occurred.
C1_ConnectedExcludesWaiting ==
    ~(connectionState.isConnected /\ connectionState.isWaiting)

\* C2: a negotiation-needed trigger that fires while an earlier trigger is
\* suspended in setLocalDescription with isNegotiating held is a no-op: it
\* leaves isNegotiating and makingOffer set, starts no second negotiation and
\* emits no offer.
C2_TriggerWhileHeldIsNoOp ==
    [][(/\ NegotiationTrigger
        /\ isNegotiatingRef
        /\ \E t \in Tasks : t.kind = "neg" /\ t.stage = "setLocal")
       => (/\ isNegotiatingRef'
           /\ makingOfferRef'
           /\ tasks' = tasks
           /\ "offer" \notin last'.out)]_vars

\* C3: offer collision: an initiator whose own offer is outstanding (being
\* made, or made and not yet answered) discards an offer that arrives from the
\* partner: it starts no answer for it, and is not torn down.
C3_InitiatorOfferPrevails ==
    [][(/\ OnOffer
        /\ peerConnectionRef # 0
        /\ connectionState.isInitiator
        /\ PcOf(peerConnectionRef).env.init
        /\ PcOf(peerConnectionRef).sig = "have-local-offer")
       => (/\ tasks' = tasks
           /\ peerConnectionRef' = peerConnectionRef)]_vars

\* C4: at every instant at most one peer connection is open, and it is the
\* one peerConnectionRef holds: createPeerConnection and every teardown close
\* the old handle before the reference is cleared or replaced; the tracks of
\* the local stream stay live through it.
C4_AtMostOneOpenHandle ==
    /\ Cardinality(OpenHandles) <= 1
    /\ \A h \in OpenHandles : h = peerConnectionRef
    /\ peerConnectionRef # 0 => peerConnectionRef \in OpenHandles
    /\ localTracks.live

\* createPeerConnection has just replaced a live handle.
C4_Witness ==
    /\ last.ev = "match"
    /\ last.hadPc
    /\ peerConnectionRef # 0
    /\ localStream

\* C5: ICE failure with reconnectAttempts = 2 schedules one more retry; with
\* reconnectAttempts = 3 it schedules none and the session fails for good:
\* handle torn down, isConnected and isWaiting false, error "Connection failed
\* after multiple attempts".
C5_RetryCeiling ==
    [][IceFailed =>
        /\ connectionState.reconnectAttempts = 2 =>
             /\ reconnectTimeout'.pending
             /\ connectionState'.reconnectAttempts = 3
        /\ connectionState.reconnectAttempts = MAX_RECONNECT_ATTEMPTS =>
             /\ reconnectTimeout' = reconnectTimeout
             /\ peerConnectionRef' = 0
             /\ ~connectionState'.isConnected
             /\ ~connectionState'.isWaiting
             /\ connectionState'.error = "Connection failed after multiple attempts"
      ]_vars

\* C6: after a match event the receiving side is the initiator and its new
\* handle can emit the offer of the happy path: the handle carries the local
\* tracks and its negotiation callback sees the initiator role.
C6_MatchBuildsInitiatorHandle ==
    (last.ev = "match" /\ localStream) =>
        /\ connectionState.isInitiator
        /\ PcOf(peerConnectionRef).env.ls
        /\ PcOf(peerConnectionRef).env.init

\* C7: partner-left with a live handle: afterwards the handle is closed and
\* cleared, the remote stream is null, isConnected, isWaiting and isInitiator
\* are false, the status is the partner-left text, and the local stream and
\* its tracks are as before.
C7_PartnerLeftTearsDown ==
    [][(OnPartnerLeft /\ peerConnectionRef # 0) =>
        /\ pcs'[peerConnectionRef].st = "closed"
        /\ peerConnectionRef' = 0
        /\ ~remoteStream'
        /\ ~connectionState'.isConnected
        /\ ~connectionState'.isWaiting
        /\ ~connectionState'.isInitiator
        /\ connectionState'.status = "Partner left. You can find a new partner."
        /\ UNCHANGED <<localStream, localTracks>>
      ]_vars

\* partner-left has just torn down a live handle of a client with a local stream.
C7_Witness ==
    /\ last.ev = "partner-left"
    /\ last.hadPc
    /\ localStream
    /\ localTracks.live
    /\ peerConnectionRef = 0

\* C8: reconnectAttempts never exceeds the retry ceiling.
C8_AttemptsWithinCeiling ==
    connectionState.reconnectAttempts <= MAX_RECONNECT_ATTEMPTS

\* C9 as claimed: whenever isConnected changes from false to true,
\* reconnectAttempts is 0 in the resulting state.
C9_ConnectedResetsAttempts ==
    [][(~connectionState.isConnected /\ connectionState'.isConnected) =>
         connectionState'.reconnectAttempts = 0]_vars

\* C9 as amended: whenever the ICE state of a handle becomes connected,
\* reconnectAttempts is 0 in the resulting state; remote-track arrival sets
\* isConnected and leaves reconnectAttempts as it was.
C9_IceConnectedResetsAttempts ==
    [][/\ IceConnected => connectionState'.reconnectAttempts = 0
       /\ (\E h \in Handles : OnTrack(h)) =>
            /\ connectionState'.isConnected
            /\ connectionState'.reconnectAttempts = connectionState.reconnectAttempts
      ]_vars

\* ICE has just reached connected on a handle that replaced one whose ICE
\* failure had raised the counter (its retry timer is still pending).
C9_Witness ==
    /\ last.ev = "ice-connected"
    /\ reconnectTimeout.pending
    /\ connectionState.reconnectAttempts = 0

\* C10: findPartner, from the button or from the reconnect timer, issued while
\* waiting or while a handle exists that is not yet connected, is a no-op: no
\* find-match, no teardown, snapshot unchanged.
C10_FindPartnerRejected ==
    [][(/\ UserFindPartner \/ ReconnectTimerFires
        /\ \/ connectionState.isWaiting
           \/ peerConnectionRef # 0 /\ ~connectionState.isConnected)
       => (/\ "find-match" \notin last'.out
           /\ UNCHANGED <<connectionState, pcs, peerConnectionRef>>)]_vars

\* The sockets that exist: created by initializeSocket, never closed while the
\* component is mounted.
LiveSockets == {s \in Sockets : sockets[s] # "none"}

\* C11: at most one signaling socket exists per client at any time.
C11_AtMostOneSocket == Cardinality(LiveSockets) <= 1

\* C12: an offer is emitted only while the snapshot's isInitiator is true.
C12_OnlyInitiatorEmitsOffer ==
    "offer" \in last.out => connectionState.isInitiator

\* C13: a second toggleAudio returns the audio tracks' enabled flag and isMuted
\* to their values before the first; a toggleAudio emits nothing and leaves the
\* handle, the negotiation flags, the suspended handlers and the snapshot as
\* they were; with no local stream it changes nothing.
C13_ToggleAudioTwiceRestores ==
    [][ToggleAudio =>
        /\ toggleAudio(localStream', localTracks', controls') =
               [tracks |-> localTracks, controls |-> controls]
        /\ localStream => localTracks'.audio # localTracks.audio
        /\ ~localStream => UNCHANGED <<localTracks, controls>>
        /\ last'.out = {}
        /\ localTracks'.live = localTracks.live
        /\ UNCHANGED <<connectionState, pcs, peerConnectionRef, remoteStream,
                       isNegotiatingRef, makingOfferRef, tasks>>
      ]_vars

\* Audio was just toggled off on a handle whose negotiation is in flight.
C13_Witness ==
    /\ last.ev = "toggleAudio"
    /\ localStream
    /\ ~localTracks.audio
    /\ controls.isMuted
    /\ peerConnectionRef # 0
    /\ isNegotiatingRef

\* A suspended handler resumes after the handle it works on was torn down or
\* replaced.
StaleResume ==
    \E t \in Tasks :
        /\ t.h = 0
        /\ NegotiationResume(t) \/ OfferResume(t) \/ AnswerResume(t)

\* C14: a handler that resumes on a stale handle emits nothing and leaves the
\* current handle and the snapshot as they were.
C14_StaleStepsDiscarded ==
    [][StaleResume =>
        /\ last'.out = {}
        /\ UNCHANGED <<connectionState, pcs, peerConnectionRef, remoteStream>>
      ]_vars

\* An awaited call of the offer or the answer handler fails on the handle that
\* is current.
NegotiationFailure ==
    /\ peerConnectionRef # 0
    /\ \E t \in Tasks :
          /\ t.h = peerConnectionRef
          /\ \/ OfferResume(t) /\ last'.ev = "offer-error"
             \/ AnswerResume(t) /\ last'.ev = "answer-error"

\* C15: a negotiation failure on the live handle leaves the handle referenced
\* and open and isConnected as it was.
C15_NegotiationErrorNonFatal ==
    [][NegotiationFailure =>
        /\ peerConnectionRef' = peerConnectionRef
        /\ pcs'[peerConnectionRef].st = "open"
        /\ connectionState'.isConnected = connectionState.isConnected
      ]_vars

\* An invocation of pc.onnegotiationneeded is suspended at its await.
NegotiationInFlight == \E t \in Tasks : t.kind = "neg"

\* C16: whenever no invocation of the negotiation-needed handler is in flight,
\* isNegotiating and makingOffer are both false.
C16_FlagsReleased ==
    ~NegotiationInFlight => (~isNegotiatingRef /\ ~makingOfferRef)

\* An invocation that had taken the flags has just finished through its catch
\* block, on a handle that is still current.
C16_Witness ==
    /\ last.ev = "negotiation-error"
    /\ peerConnectionRef # 0
    /\ ~NegotiationInFlight
    /\ ~isNegotiatingRef
    /\ ~makingOfferRef

\* C17: when the reconnect delay armed by an ICE failure below the ceiling
\* elapses, the full re-match happens: no handle is left, the snapshot is
\* waiting and not connected, and find-match is emitted, whether or not the
\* socket is connected at that moment.
C17_RetryLeadsToRematch ==
    [][ReconnectTimerFires =>
        /\ peerConnectionRef' = 0
        /\ connectionState'.isWaiting
        /\ ~connectionState'.isConnected
        /\ "find-match" \in last'.out
      ]_vars

\* The handle whose ICE failure armed the pending timer is no longer the
\* current one: a handle is current from its creation until it is closed, and
\* "failed" is final for a handle.
TimerOwnerGone ==
    /\ reconnectTimeout.pending
    /\ peerConnectionRef = 0 \/ PcOf(peerConnectionRef).ice # "failed"

\* C18: a pending reconnect timer whose handle was torn down or replaced does
\* not run findPartner: it closes no handle and emits no find-match.
C18_TimerOnlyForItsSession ==
    [][(ReconnectTimerFires /\ TimerOwnerGone) =>
        /\ "find-match" \notin last'.out
        /\ UNCHANGED <<pcs, peerConnectionRef, connectionState>>
      ]_vars

\* C19: an answer received while no handle exists is dropped: no handle is
\* created, nothing is emitted and the snapshot is unchanged.  With a handle,
\* setRemoteDescription(answer) is called on it, and once it has resolved the
\* handle carries the answer as its remote description.
C19_AnswerWithoutHandleDropped ==
    [][/\ OnAnswer =>
            IF peerConnectionRef = 0
            THEN /\ last'.out = {}
                 /\ UNCHANGED <<connectionState, pcs, peerConnectionRef,
                                remoteStream, tasks>>
            ELSE /\ tasks' = tasks (+)
                      SetToBag({Task("answer", peerConnectionRef, "setRemote")})
                 /\ UNCHANGED <<connectionState, pcs, peerConnectionRef>>
       /\ \A t \in Tasks :
            (AnswerResume(t) /\ last'.ev = "answer-applied") =>
                /\ t.h = peerConnectionRef
                /\ pcs'[t.h].remote
                /\ pcs'[t.h].sig = "stable"
      ]_vars

\* An answer has just been dropped because partner-left had torn the handle down.
C19_Witness ==
    /\ last.ev = "answer-dropped"
    /\ ~last.hadPc
    /\ peerConnectionRef = 0
    /\ connectionState.status = "Partner left. You can find a new partner."

\* C20: an inbound ICE candidate is handed to addIceCandidate exactly when a
\* handle exists whose remote description is set; otherwise it is dropped and
\* nothing is kept to apply it later; in every case the handle reference, the
\* handles, the suspended handlers and the snapshot are unchanged, and no
\* other step applies a candidate.
C20_CandidateNeedsRemoteDescription ==
    [][/\ OnIceCandidate =>
            /\ "addIceCandidate" \in last'.out <=>
                   (peerConnectionRef # 0 /\ pcs[peerConnectionRef].remote)
            /\ UNCHANGED <<connectionState, pcs, peerConnectionRef, remoteStream,
                           tasks>>
       /\ "addIceCandidate" \in last'.out => OnIceCandidate
      ]_vars

\* A candidate has just been dropped on a handle that has no remote
\* description yet.
C20_Witness ==
    /\ last.ev = "ice-candidate"
    /\ last.out = {}
    /\ last.hadPc
    /\ peerConnectionRef # 0
    /\ ~pcs[peerConnectionRef].remote

\* C21: whenever no handle exists the remote stream is null; a step that
\* adopts a remote stream is a track event of the handle that is current, and
\* a step that clears the handle reference leaves the remote stream null.
C21_NoHandleNoRemoteStream ==
    [][/\ peerConnectionRef = 0 => ~remoteStream
       /\ peerConnectionRef' = 0 => ~remoteStream'
       /\ (~remoteStream /\ remoteStream') =>
             /\ peerConnectionRef # 0
             /\ OnTrack(peerConnectionRef)
      ]_vars

\* partner-left has just torn down a handle whose remote description had been
\* applied (from then on its track events fire); no handle and no remote
\* stream are left.
C21_Witness ==
    /\ last.ev = "partner-left"
    /\ last.hadPc
    /\ peerConnectionRef = 0
    /\ ~remoteStream
    /\ \E t \in Tasks : t.kind = "offer" /\ t.h = 0 /\ t.stage # "setRemote"

====
